---- MODULE Spec2Model ----
(***************************************************************************)
(* Model of the multi-agent analysis pipeline of the ASPERA frontend:      *)
(* frontend/app/api/analyze/route.ts (callGemini, the five run*Agent       *)
(* functions and the POST handler) together with the part of the           *)
(* persistent store the handler writes to.                                 *)
(*                                                                         *)
(* JSON values are tagged records, so that JavaScript's dynamic typing     *)
(* (truthiness, spread of a non-iterable, property access on null) is      *)
(* computed and not assumed away.  Numbers that are fractions in the code  *)
(* (confidence 0.0 .. 1.0) are kept in hundredths: 0.8 is 80, 0.5 is 50.   *)
(***************************************************************************)
EXTENDS Integers, Sequences, FiniteSets, TLC

(***************************************************************************)
(* Bounds of the model.                                                    *)
(***************************************************************************)
MaxAgents == 2
MaxChunks == 3
MaxStoreFailures == 1

(***************************************************************************)
(* JSON / JavaScript values.                                               *)
(***************************************************************************)
Undef == [ty |-> "undefined"]
Null == [ty |-> "null"]
Num(n) == [ty |-> "number", n |-> n]
Str(s) == [ty |-> "string", s |-> s]
Arr(a) == [ty |-> "array", a |-> a]

\* A finding object as the model emits it; only the severity property is
\* inspected by the handler's control flow, the other properties pass through.
Finding(sev) == [ty |-> "object", severity |-> sev]

\* The object a model reply decodes to; an absent property reads as undefined.
Obj(f, c, r) == [ty |-> "object", findings |-> f, confidence |-> c, reasoning |-> r]

\* JavaScript truthiness, as used by the || operator and by if (...).
Truthy(v) ==
  CASE v.ty = "undefined" -> FALSE
    [] v.ty = "null" -> FALSE
    [] v.ty = "number" -> v.n # 0
    [] v.ty = "string" -> v.s # ""
    [] OTHER -> TRUE

\* a || b
Or(a, b) == IF Truthy(a) THEN a ELSE b

\* The characters of the string values that occur where an array is expected.
StringChars(s) == IF s = "no" THEN <<Str("n"), Str("o")>> ELSE <<>>

\* Values with an iterator: the spread ...v raises a TypeError for the others.
Iterable(v) == v.ty \in {"array", "string"}

\* The elements ...v yields, pushed one by one by allFindings.push(...v).
SpreadNested(v) == <<v>>

Spread(v) == IF v.ty = "array" THEN v.a ELSE StringChars(v.s)

\* v.length of an array or a string.
Length(v) == IF v.ty = "array" THEN Len(v.a) ELSE Len(StringChars(v.s))

\* f.severity; reading a property of null raises a TypeError (see Summary).
severityOf(f) ==
  IF f.ty = "object" /\ "severity" \in DOMAIN f THEN f.severity ELSE Undef

(***************************************************************************)
(* Raw model output.  The text is a sequence of chunks; what matters to    *)
(* the regular expression is where the braces are, and what matters to     *)
(* JSON.parse is whether the matched text is exactly one object.           *)
(*   prose   text without any brace                                        *)
(*   lbrace  a lone "{"          rbrace  a lone "}"                        *)
(*   bad     text from "{" to "}" that is not JSON, e.g. {findings: none}  *)
(*   json    the text of one well-formed JSON object, decoding to v        *)
(***************************************************************************)
Prose == [k |-> "prose"]
LBrace == [k |-> "lbrace"]
RBrace == [k |-> "rbrace"]
BadObject == [k |-> "bad"]
Json(v) == [k |-> "json", v |-> v]

HasOpen(c) == c.k \in {"lbrace", "bad", "json"}
HasClose(c) == c.k \in {"rbrace", "bad", "json"}

\* response.match(/\{[\s\S]*\}/): greedy, from the first "{" to the last "}".
\* The result is the matched text, or <<>> standing for null (a match is
\* never empty, it holds at least the two braces).
regexMatch(response) ==
  LET opens == {i \in 1..Len(response) : HasOpen(response[i])}
      closes == {j \in 1..Len(response) : HasClose(response[j])}
  IN IF opens = {} \/ closes = {} THEN <<>>
     ELSE LET first == CHOOSE i \in opens : \A i2 \in opens : i <= i2
              last == CHOOSE j \in closes : \A j2 \in closes : j2 <= j
          IN IF last < first THEN <<>> ELSE SubSeq(response, first, last)

\* JSON.parse(text): throws a SyntaxError unless the text is one JSON value.
\* "{" directly followed by "}" is the empty object.
JSONparse(text) ==
  IF Len(text) = 1 /\ text[1].k = "json"
    THEN [throws |-> FALSE, value |-> text[1].v]
  ELSE IF text = <<LBrace, RBrace>>
    THEN [throws |-> FALSE, value |-> Obj(Undef, Undef, Undef)]
  ELSE [throws |-> TRUE]

(***************************************************************************)
(* The reasoning service and callGemini.                                   *)
(***************************************************************************)
\* What the fetch of one prompt can come back with.
Rejected == [kind |-> "rejected"]
Garbled == [kind |-> "garbled"]
HttpError == [kind |-> "status", ok |-> FALSE]
HttpOk(candidates, text) ==
  [kind |-> "status", ok |-> TRUE, candidates |-> candidates, text |-> text]

\* callGemini: a rejected fetch, a non-ok status and a body response.json()
\* rejects all leave the function as a thrown error; a reply without candidate
\* text yields ''.
callGemini(reply) ==
  IF reply.kind = "rejected" THEN [throws |-> TRUE, message |-> "fetch failed"]
  ELSE IF reply.kind = "garbled" THEN [throws |-> TRUE, message |-> "SyntaxError"]
  ELSE IF ~reply.ok THEN [throws |-> TRUE, message |-> "Gemini API error"]
  ELSE [throws |-> FALSE,
        value |-> IF reply.candidates /\ reply.text # <<>> THEN reply.text ELSE <<>>]

(***************************************************************************)
(* The five agents: identical code up to the agent's display name.         *)
(***************************************************************************)
KnownAgents == {"consistency", "greenwashing", "compliance", "math", "risk"}

AgentName(agent) ==
  CASE agent = "consistency" -> "Consistency Agent"
    [] agent = "greenwashing" -> "Greenwashing Detector"
    [] agent = "compliance" -> "Compliance Agent"
    [] agent = "math" -> "Math Agent"
    [] agent = "risk" -> "Risk Analysis Agent"
    [] OTHER -> "none"

DefaultConfidence == 80
FallbackConfidence == 50

\* The object returned when no object is matched or JSON.parse throws.
FallbackResultDefault(name) ==
  [agent |-> name, findings |-> Arr(<<>>), confidence |-> Num(DefaultConfidence),
   reasoning |-> Str("Analysis complete")]

FallbackResult(name) ==
  [agent |-> name, findings |-> Arr(<<>>), confidence |-> Num(FallbackConfidence),
   reasoning |-> Str("Unable to parse response")]

\* The object built from a parsed reply: each property || its default.
ParsedResultHalf(name, parsed) ==
  [agent |-> name,
   findings |-> Or(parsed.findings, Arr(<<>>)),
   confidence |-> Or(parsed.confidence, Num(FallbackConfidence)),
   reasoning |-> Or(parsed.reasoning, Str("Analysis complete"))]

ParsedResult(name, parsed) ==
  [agent |-> name,
   findings |-> Or(parsed.findings, Arr(<<>>)),
   confidence |-> Or(parsed.confidence, Num(DefaultConfidence)),
   reasoning |-> Or(parsed.reasoning, Str("Analysis complete"))]

\* The part of every run*Agent function after the call of callGemini:
\* match, parse inside try/catch, build the result or fall back.
parseResponse(name, response) ==
  LET jsonMatch == regexMatch(response)
  IN IF jsonMatch # <<>>
       THEN LET parsed == JSONparse(jsonMatch)
            IN IF parsed.throws THEN FallbackResult(name)
               ELSE ParsedResult(name, parsed.value)
       ELSE FallbackResult(name)

runConsistencyAgent(response) == parseResponse("Consistency Agent", response)
runGreenwashingAgent(response) == parseResponse("Greenwashing Detector", response)
runComplianceAgent(response) == parseResponse("Compliance Agent", response)
runMathAgent(response) == parseResponse("Math Agent", response)
runRiskAgent(response) == parseResponse("Risk Analysis Agent", response)

\* The switch of the POST handler over the agent identifier.
runAgent(agent, response) ==
  CASE agent = "consistency" -> runConsistencyAgent(response)
    [] agent = "greenwashing" -> runGreenwashingAgent(response)
    [] agent = "compliance" -> runComplianceAgent(response)
    [] agent = "math" -> runMathAgent(response)
    [] agent = "risk" -> runRiskAgent(response)

(***************************************************************************)
(* Inputs of the parser specification: raw model outputs.                  *)
(***************************************************************************)
SeqsUpTo(S, n) == UNION {[1..m -> S] : m \in 0..n}

FindingsValues ==
  {Undef, Arr(<<>>), Arr(<<Finding(Str("HIGH")), Finding(Str("high"))>>),
   Arr(<<Null>>), Str("no"), Num(5)}
ConfidenceValues == {Undef, Num(0), Num(90), Num(100), Num(700), Num(-10), Str("high")}
ReasoningValues == {Undef, Str("ok"), Str(""), Num(5)}

Objects ==
  {Obj(f, c, r) : f \in FindingsValues, c \in ConfidenceValues, r \in ReasoningValues}

\* Scenario B of the specification, and a second object to tell which one of
\* two objects in a text a result comes from.
ObjectB == Obj(Arr(<<>>), Num(90), Str("ok"))
ObjectTwo == Obj(Arr(<<Finding(Str("LOW"))>>), Num(70), Str("second"))

Chunks == {Prose, LBrace, RBrace, BadObject, Json(ObjectB), Json(ObjectTwo)}

RawOutputs ==
  SeqsUpTo(Chunks, MaxChunks)
    \cup {<<Json(o)>> : o \in Objects}
    \cup {<<Prose, Json(o), Prose>> : o \in Objects}

(***************************************************************************)
(* The POST handler: requests, responses and the store.                    *)
(***************************************************************************)
Runs == {1, 2}
DocIds == {"d1"}
AgentIds == KnownAgents \cup {"sentiment"}

DefaultAgentsRiskFirst == <<"risk", "consistency", "greenwashing", "compliance", "math">>

DefaultAgents == <<"consistency", "greenwashing", "compliance", "math", "risk">>

\* The decoded request body; valid = FALSE is a body request.json() rejects.
Request(valid, document_id, text, run_agents) ==
  [valid |-> valid, document_id |-> document_id, text |-> text, run_agents |-> run_agents]

NoRequest == Request(FALSE, Undef, Undef, Undef)

Requests ==
  {Request(TRUE, d, t, a) :
     d \in {Undef} \cup {Str(id) : id \in DocIds},
     t \in {Undef, Str(""), Str("Revenue is $1,000,000.")},
     a \in {Undef} \cup {Arr(l) : l \in SeqsUpTo(AgentIds, MaxAgents)}}
    \cup {Request(FALSE, Undef, Undef, Undef)}

\* if (!text): the request carries no usable text.
textUndefined(req) == req.text.ty = "undefined"

textMissing(req) == ~Truthy(req.text)

\* const agents = run_agents || [the five agents]
agentsOf(req) == IF Truthy(req.run_agents) THEN req.run_agents.a ELSE DefaultAgents

\* The for loop with its default: continue branch: the position of the first
\* agent at or after i that the switch knows, Len(agents) + 1 when none is.
NextAgentStop(agents, i) ==
  LET known == {j \in i..Len(agents) : agents[j] \in KnownAgents}
  IN IF known = {} \/ agents[i] \notin KnownAgents THEN Len(agents) + 1
     ELSE CHOOSE j \in known : \A j2 \in known : j <= j2

NextAgent(agents, i) ==
  LET known == {j \in i..Len(agents) : agents[j] \in KnownAgents}
  IN IF known = {} THEN Len(agents) + 1
     ELSE CHOOSE j \in known : \A j2 \in known : j <= j2

\* The prompt handed to callGemini: the agent's fixed instructions, the
\* document text and, for the risk agent only, JSON.stringify(previousFindings).
PromptFresh(agent, text, allF) ==
  IF agent = "risk"
    THEN [agent |-> agent, text |-> text, previousFindings |-> <<>>]
    ELSE [agent |-> agent, text |-> text]

PromptLeaky(agent, text, allF) ==
  [agent |-> agent, text |-> text, previousFindings |-> allF]

Prompt(agent, text, allF) ==
  IF agent = "risk"
    THEN [agent |-> agent, text |-> text, previousFindings |-> allF]
    ELSE [agent |-> agent, text |-> text]

\* allFindings.filter(f => f.severity === sev).length
CountSeverity(allF, sev) ==
  Cardinality({i \in 1..Len(allF) : severityOf(allF[i]) = Str(sev)})

\* The summary object of the success response; f.severity raises a TypeError
\* when an accumulated finding is null.
Summary(allF) ==
  IF \E i \in 1..Len(allF) : allF[i].ty = "null"
    THEN [throws |-> TRUE]
    ELSE [throws |-> FALSE,
          value |-> [total_findings |-> Len(allF),
                     critical |-> CountSeverity(allF, "CRITICAL"),
                     high |-> CountSeverity(allF, "HIGH"),
                     medium |-> CountSeverity(allF, "MEDIUM"),
                     low |-> CountSeverity(allF, "LOW")]]

NoResponse == [status |-> 0]
ValidationError == [status |-> 400, error |-> "Text content is required"]
ServerError(message) == [status |-> 500, error |-> message]

\* The final NextResponse.json(...), or the catch block when building it raises.
SuccessResponse(res, allF) ==
  LET summary == Summary(allF)
  IN IF summary.throws THEN ServerError("TypeError")
     ELSE [status |-> 200, success |-> TRUE, results |-> res, summary |-> summary.value]

\* String.prototype.toLowerCase on the severity strings of the model.
toLowerCase(s) ==
  CASE s \in {"CRITICAL", "Critical", "critical"} -> "critical"
    [] s \in {"HIGH", "High", "high"} -> "high"
    [] s \in {"MEDIUM", "Medium", "medium"} -> "medium"
    [] s \in {"LOW", "Low", "low"} -> "low"
    [] OTHER -> s

\* The row of agent_executions built from a result (execution_time, a clock
\* difference, is left out).
ExecutionRow(document_id, result) ==
  [document_id |-> document_id.s, agent_name |-> result.agent, status |-> "completed",
   findings_count |-> Length(result.findings), confidence_score |-> result.confidence]

\* The row of findings built from one finding:
\* severity: finding.severity?.toLowerCase() || 'medium' raises on a null
\* finding and on a severity that is neither nullish nor a string.
FindingRow(document_id, result, finding) ==
  LET sev == severityOf(finding)
  IN IF finding.ty = "null" \/ sev.ty \notin {"undefined", "null", "string"}
       THEN [throws |-> TRUE]
       ELSE [throws |-> FALSE,
             value |-> [document_id |-> document_id.s, agent_type |-> result.agent,
                        severity |-> IF sev.ty = "string" /\ sev.s # ""
                                       THEN toLowerCase(sev.s) ELSE "medium",
                        confidence_score |-> result.confidence]]

\* What an awaited store call can come back with: the write done, an error
\* object (which the handler never inspects), or a rejected promise.
StoreOutcomes == {"ok", "error", "raise"}

(***************************************************************************)
(* The upload endpoint: files, paths and responses.                        *)
(***************************************************************************)
Uploads == {1, 2}
MaxTicks == 1

\* formData.get('file'): a file of the form, or null when the form has none.
File(name) == [ty |-> "file", name |-> name, type |-> "application/pdf", size |-> 1024]

\* The decoded body; valid = FALSE is a body request.formData() rejects.
Form(valid, file) == [valid |-> valid, file |-> file]

NoForm == Form(FALSE, Null)

Forms ==
  {Form(TRUE, f) : f \in {Null, File("report.pdf"), File("q1 report.pdf"),
                          File("q1_report.pdf")}}
    \cup {NoForm}

\* file.name.replace(/[^a-zA-Z0-9.-]/g, '_') on the names of the model.
sanitizedName(name) == IF name = "q1 report.pdf" THEN "q1_report.pdf" ELSE name

\* `documents/${timestamp}_${sanitizedName}`
FilePath(timestamp, name) == [timestamp |-> timestamp, name |-> sanitizedName(name)]

NoPath == [timestamp |-> 0, name |-> ""]

\* The id the store gives a new row (uuid_generate_v4), by insertion order.
RowId(n) == [ty |-> "string", uuid |-> n]

\* The row of documents the upload endpoint inserts.
DocumentRow(id, file, path) ==
  [id |-> id, filename |-> file.name, file_type |-> file.type, file_size |-> file.size,
   s3_key |-> path, processing_status |-> "pending"]

\* The file object of the success responses.
FileInfo(file, path) ==
  [path |-> path, name |-> file.name, size |-> file.size, type |-> file.type]

NoFileError == [status |-> 400, error |-> "No file provided"]
UploadFailed(message) == [status |-> 500, error |-> message]

UploadedWithWarning(file, path) ==
  [status |-> 200, success |-> TRUE, file |-> FileInfo(file, path),
   document_id |-> Null, warning |-> "File uploaded but document record failed"]

Uploaded(file, path, row) ==
  [status |-> 200, success |-> TRUE, file |-> FileInfo(file, path),
   document_id |-> row.id, document |-> row]

VARIABLES
  request,          \* per run: the decoded request body
  pc,               \* per run: the await the handler is suspended at
  agentIdx,         \* per run: position in agents of the agent being run
  findingIdx,       \* per run: position of the finding being inserted
  results,          \* per run: the handler's results array
  allFindings,      \* per run: the handler's allFindings array
  geminiCalls,      \* per run: the prompts sent to the reasoning service
  response,         \* per run: the HTTP response returned to the caller
  documents,        \* store: processing_status per document id
  agent_executions, \* store: rows of agent_executions, in insertion order
  findings,         \* store: rows of findings, in insertion order
  storeFailures,    \* number of store calls that failed so far
  modelOutput,      \* parser specification: the raw text under parse
  parsedBy,         \* parser specification: the agent parsing it
  agentResult,      \* parser specification: the result, once parsed
  formData,         \* per upload: the decoded multipart body
  uploadPc,         \* per upload: the await the upload handler is suspended at
  filePath,         \* per upload: the storage path of the file
  uploadError,      \* per upload: the error of the storage upload
  docData,          \* per upload: the row returned by the insert into documents
  docError,         \* per upload: the error of the insert into documents
  uploadResponse,   \* per upload: the HTTP response returned to the caller
  bucket,           \* storage: the paths of the objects in the bucket
  documentRows,     \* store: the rows the upload endpoint inserted into documents
  now               \* the clock Date.now() reads

runVars == <<request, pc, agentIdx, findingIdx, results, allFindings, geminiCalls, response>>
storeVars == <<documents, agent_executions, findings, storeFailures>>
parserVars == <<modelOutput, parsedBy, agentResult>>
uploadVars == <<formData, uploadPc, filePath, uploadError, docData, docError,
                uploadResponse, bucket, documentRows, now>>
vars == <<runVars, storeVars, parserVars, uploadVars>>

NoResult == [agent |-> "none"]

\* The replies the reasoning service gives in the pipeline specification.
TwoFindings == Arr(<<Finding(Str("HIGH")), Finding(Str("high"))>>)
OneFinding == Arr(<<Finding(Str("CRITICAL"))>>)

Replies ==
  {Rejected, HttpError, Garbled, HttpOk(FALSE, <<>>),
   HttpOk(TRUE, <<Prose>>),
   HttpOk(TRUE, <<Prose, Json(ObjectB), Prose>>),
   HttpOk(TRUE, <<Json(Obj(TwoFindings, Num(90), Str("ok")))>>),
   HttpOk(TRUE, <<Json(Obj(OneFinding, Undef, Undef))>>),
   HttpOk(TRUE, <<Json(Obj(Str("no"), Num(700), Str("ok")))>>),
   HttpOk(TRUE, <<Json(Obj(Num(5), Num(90), Str("ok")))>>),
   HttpOk(TRUE, <<Json(Obj(Arr(<<Null>>), Num(90), Str("ok")))>>)}

\* The replies to the calls of a second, concurrent run: its findings carry
\* severities no reply to the first run carries, so that the run a finding
\* was produced in can be told from the finding.
RepliesTwo ==
  {HttpError,
   HttpOk(TRUE, <<Prose>>),
   HttpOk(TRUE, <<Json(Obj(Arr(<<Finding(Str("LOW")), Finding(Str("MEDIUM"))>>),
                           Num(70), Str("second")))>>)}

RepliesTo(r) == IF r = 1 THEN Replies ELSE RepliesTwo

(***************************************************************************)
(* Initial states.                                                         *)
(***************************************************************************)
\* No upload is under way.
UploadIdle ==
  /\ formData = [u \in Uploads |-> NoForm]
  /\ uploadPc = [u \in Uploads |-> "idle"]
  /\ filePath = [u \in Uploads |-> NoPath]
  /\ uploadError = [u \in Uploads |-> Undef]
  /\ docData = [u \in Uploads |-> Undef]
  /\ docError = [u \in Uploads |-> Undef]
  /\ uploadResponse = [u \in Uploads |-> NoResponse]
  /\ bucket = {}
  /\ documentRows = <<>>
  /\ now = 1000

\* One request has arrived at the handler; the second run stays idle.
Init ==
  /\ \E req \in Requests : request = [r \in Runs |-> IF r = 1 THEN req ELSE NoRequest]
  /\ pc = [r \in Runs |-> IF r = 1 THEN "received" ELSE "idle"]
  /\ agentIdx = [r \in Runs |-> 0]
  /\ findingIdx = [r \in Runs |-> 0]
  /\ results = [r \in Runs |-> <<>>]
  /\ allFindings = [r \in Runs |-> <<>>]
  /\ geminiCalls = [r \in Runs |-> <<>>]
  /\ response = [r \in Runs |-> NoResponse]
  /\ documents = [d \in DocIds |-> "pending"]
  /\ agent_executions = <<>>
  /\ findings = <<>>
  /\ storeFailures = 0
  /\ modelOutput = <<>>
  /\ parsedBy = "consistency"
  /\ agentResult = NoResult
  /\ UploadIdle

\* Two requests about the same text have arrived and run concurrently, the
\* second one for the same document or without a document id.
RequestsTwo ==
  {Request(TRUE, d, Str("Revenue is $1,000,000."), Arr(a)) :
     d \in {Undef, Str("d1")}, a \in {<<"math", "risk">>, <<"math", "consistency">>}}

InitTwo ==
  /\ \E req \in RequestsTwo :
       request = [r \in Runs |->
                    IF r = 1
                      THEN Request(TRUE, Str("d1"), Str("Revenue is $1,000,000."),
                                   Arr(<<"consistency", "risk">>))
                      ELSE req]
  /\ pc = [r \in Runs |-> "received"]
  /\ agentIdx = [r \in Runs |-> 0]
  /\ findingIdx = [r \in Runs |-> 0]
  /\ results = [r \in Runs |-> <<>>]
  /\ allFindings = [r \in Runs |-> <<>>]
  /\ geminiCalls = [r \in Runs |-> <<>>]
  /\ response = [r \in Runs |-> NoResponse]
  /\ documents = [d \in DocIds |-> "pending"]
  /\ agent_executions = <<>>
  /\ findings = <<>>
  /\ storeFailures = 0
  /\ modelOutput = <<>>
  /\ parsedBy = "consistency"
  /\ agentResult = NoResult
  /\ UploadIdle

\* The parser on its own: a raw model output and the agent that parses it.
InitParse ==
  /\ request = [r \in Runs |-> NoRequest]
  /\ pc = [r \in Runs |-> "idle"]
  /\ agentIdx = [r \in Runs |-> 0]
  /\ findingIdx = [r \in Runs |-> 0]
  /\ results = [r \in Runs |-> <<>>]
  /\ allFindings = [r \in Runs |-> <<>>]
  /\ geminiCalls = [r \in Runs |-> <<>>]
  /\ response = [r \in Runs |-> NoResponse]
  /\ documents = [d \in DocIds |-> "pending"]
  /\ agent_executions = <<>>
  /\ findings = <<>>
  /\ storeFailures = 0
  /\ modelOutput \in RawOutputs
  /\ parsedBy \in KnownAgents
  /\ agentResult = NoResult
  /\ UploadIdle

(***************************************************************************)
(* The handler, one action per await.                                      *)
(***************************************************************************)
Last(s) == s[Len(s)]

\* The catch block of POST: the run ends with a 500 response.
Fail(r, message) ==
  /\ pc' = [pc EXCEPT ![r] = "responded"]
  /\ response' = [response EXCEPT ![r] = ServerError(message)]

\* The for loop from position i on, up to the next await: skip unknown
\* identifiers, then either send the next agent's prompt, or leave the loop
\* and update the document, or (without a document id) return the response.
IterateEager(r, i, res, allF) ==
  LET req == request[r]
      agents == agentsOf(req)
      j == NextAgent(agents, i)
  IN /\ agentIdx' = [agentIdx EXCEPT ![r] = j]
     /\ IF j <= Len(agents) /\ ~(i > 1 /\ Truthy(req.document_id))
          THEN /\ pc' = [pc EXCEPT ![r] = "fetch"]
               /\ geminiCalls' =
                    [geminiCalls EXCEPT ![r] = Append(@, Prompt(agents[j], req.text, allF))]
               /\ UNCHANGED response
          ELSE /\ UNCHANGED geminiCalls
               /\ IF Truthy(req.document_id)
                    THEN /\ pc' = [pc EXCEPT ![r] = "updateDocument"]
                         /\ UNCHANGED response
                    ELSE /\ pc' = [pc EXCEPT ![r] = "responded"]
                         /\ response' = [response EXCEPT ![r] = SuccessResponse(res, allF)]

Iterate(r, i, res, allF) ==
  LET req == request[r]
      agents == agentsOf(req)
      j == NextAgent(agents, i)
  IN /\ agentIdx' = [agentIdx EXCEPT ![r] = j]
     /\ IF j <= Len(agents)
          THEN /\ pc' = [pc EXCEPT ![r] = "fetch"]
               /\ geminiCalls' =
                    [geminiCalls EXCEPT ![r] = Append(@, Prompt(agents[j], req.text, allF))]
               /\ UNCHANGED response
          ELSE /\ UNCHANGED geminiCalls
               /\ IF Truthy(req.document_id)
                    THEN /\ pc' = [pc EXCEPT ![r] = "updateDocument"]
                         /\ UNCHANGED response
                    ELSE /\ pc' = [pc EXCEPT ![r] = "responded"]
                         /\ response' = [response EXCEPT ![r] = SuccessResponse(res, allF)]

\* POST up to its first await after request.json(): decode, validate, enter
\* the loop.
POSTbegin(r) ==
  /\ pc[r] = "received"
  /\ UNCHANGED <<request, findingIdx, results, allFindings, storeVars, parserVars, uploadVars>>
  /\ IF ~request[r].valid
       THEN Fail(r, "SyntaxError") /\ UNCHANGED <<agentIdx, geminiCalls>>
     ELSE IF textMissing(request[r])
       THEN /\ pc' = [pc EXCEPT ![r] = "responded"]
            /\ response' = [response EXCEPT ![r] = ValidationError]
            /\ UNCHANGED <<agentIdx, geminiCalls>>
     ELSE Iterate(r, 1, <<>>, <<>>)

\* allFindings.push(...result.findings): the run's accumulator after the push.
AccumulateReset(r, result) == Spread(result.findings)

AccumulateShared(r, result) == allFindings[1] \o Spread(result.findings)

Accumulate(r, result) == allFindings[r] \o Spread(result.findings)

\* The reasoning service answers: callGemini returns or throws, the agent
\* parses, the result is pushed and its findings are accumulated.
GeminiReturns(r) ==
  /\ pc[r] = "fetch"
  /\ UNCHANGED <<request, storeVars, parserVars, uploadVars>>
  /\ \E reply \in RepliesTo(r) :
       LET agent == agentsOf(request[r])[agentIdx[r]]
           out == callGemini(reply)
       IN IF out.throws
            THEN /\ Fail(r, out.message)
                 /\ UNCHANGED <<agentIdx, findingIdx, results, allFindings, geminiCalls>>
            ELSE LET result == runAgent(agent, out.value)
                     res == Append(results[r], result)
                 IN /\ results' = [results EXCEPT ![r] = res]
                    /\ IF ~Iterable(result.findings)
                         THEN /\ Fail(r, "TypeError")
                              /\ UNCHANGED <<agentIdx, findingIdx, allFindings, geminiCalls>>
                         ELSE LET allF == Accumulate(r, result)
                              IN /\ allFindings' = [allFindings EXCEPT ![r] = allF]
                                 /\ UNCHANGED findingIdx
                                 /\ IF Truthy(request[r].document_id)
                                      THEN /\ pc' = [pc EXCEPT ![r] = "insertExecution"]
                                           /\ UNCHANGED <<agentIdx, geminiCalls, response>>
                                      ELSE Iterate(r, agentIdx[r] + 1, res, allF)

\* The reasoning service never answers the pending call.  fetch is called
\* without a signal or a timer, so its promise never settles and the handler
\* stays suspended at the await.
ServiceSilent(r) ==
  /\ pc[r] = "fetch"
  /\ pc' = [pc EXCEPT ![r] = "unanswered"]
  /\ UNCHANGED <<request, agentIdx, findingIdx, results, allFindings, geminiCalls,
                 response, storeVars, parserVars, uploadVars>>

\* A failing store call counts against the bound on injected failures.
StoreCall(outcome) ==
  /\ outcome # "ok" => storeFailures < MaxStoreFailures
  /\ storeFailures' = IF outcome = "ok" THEN storeFailures ELSE storeFailures + 1

\* for (const finding of result.findings) from position k on: build the row
\* of the k-th finding and send it, or go on with the next agent.
StoreFindingShort(r, k) ==
  LET result == Last(results[r])
      fs == Spread(result.findings)
  IN IF k < Len(fs)
       THEN IF FindingRow(request[r].document_id, result, fs[k]).throws
              THEN Fail(r, "TypeError") /\ UNCHANGED <<agentIdx, findingIdx, geminiCalls>>
              ELSE /\ pc' = [pc EXCEPT ![r] = "insertFinding"]
                   /\ findingIdx' = [findingIdx EXCEPT ![r] = k]
                   /\ UNCHANGED <<agentIdx, geminiCalls, response>>
       ELSE /\ findingIdx' = [findingIdx EXCEPT ![r] = 0]
            /\ Iterate(r, agentIdx[r] + 1, results[r], allFindings[r])

StoreFindingUnawaited(r, k) ==
  /\ findingIdx' = [findingIdx EXCEPT ![r] = 0]
  /\ Iterate(r, agentIdx[r] + 1, results[r], allFindings[r])

StoreFinding(r, k) ==
  LET result == Last(results[r])
      fs == Spread(result.findings)
  IN IF k <= Len(fs)
       THEN IF FindingRow(request[r].document_id, result, fs[k]).throws
              THEN Fail(r, "TypeError") /\ UNCHANGED <<agentIdx, findingIdx, geminiCalls>>
              ELSE /\ pc' = [pc EXCEPT ![r] = "insertFinding"]
                   /\ findingIdx' = [findingIdx EXCEPT ![r] = k]
                   /\ UNCHANGED <<agentIdx, geminiCalls, response>>
       ELSE /\ findingIdx' = [findingIdx EXCEPT ![r] = 0]
            /\ Iterate(r, agentIdx[r] + 1, results[r], allFindings[r])

\* The insert into agent_executions returns.
InsertExecutionReturns(r) ==
  /\ pc[r] = "insertExecution"
  /\ UNCHANGED <<request, results, allFindings, documents, findings, parserVars, uploadVars>>
  /\ \E outcome \in StoreOutcomes :
       /\ StoreCall(outcome)
       /\ agent_executions' =
            IF outcome = "ok"
              THEN Append(agent_executions,
                          ExecutionRow(request[r].document_id, Last(results[r])))
              ELSE agent_executions
       /\ IF outcome = "raise"
            THEN Fail(r, "insert rejected") /\ UNCHANGED <<agentIdx, findingIdx, geminiCalls>>
            ELSE StoreFinding(r, 1)

\* The insert of one finding into findings returns.
InsertFindingReturns(r) ==
  /\ pc[r] = "insertFinding"
  /\ UNCHANGED <<request, results, allFindings, documents, agent_executions, parserVars, uploadVars>>
  /\ \E outcome \in StoreOutcomes :
       /\ StoreCall(outcome)
       /\ LET result == Last(results[r])
              finding == Spread(result.findings)[findingIdx[r]]
          IN findings' =
               IF outcome = "ok"
                 THEN Append(findings,
                             FindingRow(request[r].document_id, result, finding).value)
                 ELSE findings
       /\ IF outcome = "raise"
            THEN Fail(r, "insert rejected") /\ UNCHANGED <<agentIdx, findingIdx, geminiCalls>>
            ELSE StoreFinding(r, findingIdx[r] + 1)

\* The update of documents.processing_status returns; the response follows.
UpdateDocumentReturns(r) ==
  /\ pc[r] = "updateDocument"
  /\ UNCHANGED <<request, agentIdx, findingIdx, results, allFindings, geminiCalls,
                 agent_executions, findings, parserVars, uploadVars>>
  /\ \E outcome \in StoreOutcomes :
       /\ StoreCall(outcome)
       /\ documents' =
            IF outcome = "ok"
              THEN [documents EXCEPT ![request[r].document_id.s] = "completed"]
              ELSE documents
       /\ pc' = [pc EXCEPT ![r] = "responded"]
       /\ response' =
            [response EXCEPT ![r] =
               IF outcome = "raise" THEN ServerError("update rejected")
               ELSE SuccessResponse(results[r], allFindings[r])]

\* The parser applied to the raw output under parse.
ParseResponse ==
  /\ agentResult = NoResult
  /\ \A r \in Runs : pc[r] = "idle"
  /\ agentResult' = runAgent(parsedBy, modelOutput)
  /\ UNCHANGED <<runVars, storeVars, modelOutput, parsedBy, uploadVars>>

(***************************************************************************)
(* The upload handler, one action per await.                               *)
(***************************************************************************)
\* The error object a storage or store call reports.
Err(message) == [ty |-> "object", message |-> message]

\* Uploads have arrived at the upload endpoint; no analysis is running.
InitUpload ==
  /\ request = [r \in Runs |-> NoRequest]
  /\ pc = [r \in Runs |-> "idle"]
  /\ agentIdx = [r \in Runs |-> 0]
  /\ findingIdx = [r \in Runs |-> 0]
  /\ results = [r \in Runs |-> <<>>]
  /\ allFindings = [r \in Runs |-> <<>>]
  /\ geminiCalls = [r \in Runs |-> <<>>]
  /\ response = [r \in Runs |-> NoResponse]
  /\ documents = [d \in DocIds |-> "pending"]
  /\ agent_executions = <<>>
  /\ findings = <<>>
  /\ storeFailures = 0
  /\ modelOutput = <<>>
  /\ parsedBy = "consistency"
  /\ agentResult = NoResult
  /\ formData \in [Uploads -> Forms]
  /\ uploadPc = [u \in Uploads |-> "received"]
  /\ filePath = [u \in Uploads |-> NoPath]
  /\ uploadError = [u \in Uploads |-> Undef]
  /\ docData = [u \in Uploads |-> Undef]
  /\ docError = [u \in Uploads |-> Undef]
  /\ uploadResponse = [u \in Uploads |-> NoResponse]
  /\ bucket = {}
  /\ documentRows = <<>>
  /\ now = 1000

\* The catch block of the upload handler.
UploadFail(u, message) ==
  /\ uploadPc' = [uploadPc EXCEPT ![u] = "responded"]
  /\ uploadResponse' = [uploadResponse EXCEPT ![u] = UploadFailed(message)]

\* The upload handler up to the await of the storage upload: decode the
\* form, check the file, build the path from the clock and the file's name.
UploadBegin(u) ==
  /\ uploadPc[u] = "received"
  /\ UNCHANGED <<runVars, storeVars, parserVars, formData, uploadError, docData, docError,
                 bucket, documentRows, now>>
  /\ IF ~formData[u].valid
       THEN UploadFail(u, "TypeError") /\ UNCHANGED filePath
     ELSE IF formData[u].file = Null
       THEN /\ uploadPc' = [uploadPc EXCEPT ![u] = "responded"]
            /\ uploadResponse' = [uploadResponse EXCEPT ![u] = NoFileError]
            /\ UNCHANGED filePath
     ELSE /\ filePath' = [filePath EXCEPT ![u] = FilePath(now, formData[u].file.name)]
          /\ uploadPc' = [uploadPc EXCEPT ![u] = "upload"]
          /\ UNCHANGED uploadResponse

\* The storage upload returns.  With upsert: false the storage refuses a
\* path it already holds.  if (uploadError) answers 500 and returns.
StorageUploadUnchecked(u) ==
  /\ uploadPc[u] = "upload"
  /\ UNCHANGED <<runVars, documents, agent_executions, findings, parserVars, formData,
                 filePath, docData, docError, documentRows, now, uploadResponse>>
  /\ \E outcome \in StoreOutcomes :
       LET o == IF outcome = "ok" /\ filePath[u] \in bucket THEN "error" ELSE outcome
       IN /\ StoreCall(outcome)
          /\ bucket' = IF o = "ok" THEN bucket \cup {filePath[u]} ELSE bucket
          /\ uploadError' = [uploadError EXCEPT ![u] =
                               IF o = "ok" THEN Null ELSE Err("upload failed")]
          /\ uploadPc' = [uploadPc EXCEPT ![u] = "insertDocument"]

StorageUploadReturns(u) ==
  /\ uploadPc[u] = "upload"
  /\ UNCHANGED <<runVars, documents, agent_executions, findings, parserVars, formData,
                 filePath, docData, docError, documentRows, now>>
  /\ \E outcome \in StoreOutcomes :
       LET o == IF outcome = "ok" /\ filePath[u] \in bucket THEN "error" ELSE outcome
       IN /\ StoreCall(outcome)
          /\ bucket' = IF o = "ok" THEN bucket \cup {filePath[u]} ELSE bucket
          /\ IF o = "raise"
               THEN UploadFail(u, "upload rejected") /\ UNCHANGED uploadError
             ELSE IF o = "error"
               THEN /\ uploadError' = [uploadError EXCEPT ![u] = Err("upload failed")]
                    /\ uploadPc' = [uploadPc EXCEPT ![u] = "responded"]
                    /\ uploadResponse' =
                         [uploadResponse EXCEPT ![u] = UploadFailed("upload failed")]
             ELSE /\ uploadError' = [uploadError EXCEPT ![u] = Null]
                  /\ uploadPc' = [uploadPc EXCEPT ![u] = "insertDocument"]
                  /\ UNCHANGED uploadResponse

\* The insert into documents returns, with .select().single() giving the new
\* row; the response follows.
InsertDocumentReturns(u) ==
  /\ uploadPc[u] = "insertDocument"
  /\ UNCHANGED <<runVars, documents, agent_executions, findings, parserVars, formData,
                 filePath, uploadError, bucket, now>>
  /\ \E outcome \in StoreOutcomes :
       LET row == DocumentRow(RowId(Len(documentRows) + 1), formData[u].file, filePath[u])
       IN /\ StoreCall(outcome)
          /\ documentRows' = IF outcome = "ok" THEN Append(documentRows, row)
                             ELSE documentRows
          /\ IF outcome = "raise"
               THEN UploadFail(u, "insert rejected") /\ UNCHANGED <<docData, docError>>
               ELSE /\ docData' = [docData EXCEPT ![u] = IF outcome = "ok" THEN row ELSE Null]
                    /\ docError' = [docError EXCEPT ![u] =
                                      IF outcome = "ok" THEN Null ELSE Err("insert failed")]
                    /\ uploadPc' = [uploadPc EXCEPT ![u] = "responded"]
                    /\ uploadResponse' =
                         [uploadResponse EXCEPT ![u] =
                            IF outcome = "ok"
                              THEN Uploaded(formData[u].file, filePath[u], row)
                              ELSE UploadedWithWarning(formData[u].file, filePath[u])]

\* A millisecond passes.
Tick ==
  /\ now < 1000 + MaxTicks
  /\ now' = now + 1
  /\ UNCHANGED <<runVars, storeVars, parserVars, formData, uploadPc, filePath, uploadError,
                 docData, docError, uploadResponse, bucket, documentRows>>

NextUpload ==
  \/ \E u \in Uploads :
       \/ UploadBegin(u)
       \/ StorageUploadReturns(u)
       \/ InsertDocumentReturns(u)
  \/ Tick

Next ==
  \E r \in Runs :
    \/ POSTbegin(r)
    \/ GeminiReturns(r)
    \/ ServiceSilent(r)
    \/ InsertExecutionReturns(r)
    \/ InsertFindingReturns(r)
    \/ UpdateDocumentReturns(r)

NextParse == ParseResponse

Spec == Init /\ [][Next]_vars

\* The handler's continuations run once what they await has settled, and a
\* call the service answers is answered eventually.
Fairness ==
  \A r \in Runs :
    /\ WF_vars(POSTbegin(r))
    /\ WF_vars(GeminiReturns(r))
    /\ WF_vars(InsertExecutionReturns(r))
    /\ WF_vars(InsertFindingReturns(r))
    /\ WF_vars(UpdateDocumentReturns(r))

SpecLive == Init /\ [][Next]_vars /\ Fairness

SpecParse == InitParse /\ [][NextParse]_vars

SpecTwo == InitTwo /\ [][Next]_vars

SpecUpload == InitUpload /\ [][NextUpload]_vars

TypeOK ==
  /\ \A r \in Runs : pc[r] \in {"idle", "received", "fetch", "unanswered", "insertExecution",
                                "insertFinding", "updateDocument", "responded"}
  /\ storeFailures \in 0..MaxStoreFailures

(***************************************************************************)
(* Properties.                                                             *)
(***************************************************************************)
Responded(r) == pc[r] = "responded"

\* A request with non-empty text that names at least one agent, all of them
\* agents the handler knows.
ProperRequest(r) ==
  /\ request[r].valid
  /\ Truthy(request[r].text)
  /\ Truthy(request[r].run_agents)
  /\ Len(request[r].run_agents.a) > 0
  /\ \A i \in 1..Len(request[r].run_agents.a) : request[r].run_agents.a[i] \in KnownAgents

\* The findings of the first n results, concatenated in order.
RECURSIVE FindingsOf(_, _)
FindingsOf(res, n) ==
  IF n = 0 THEN <<>> ELSE FindingsOf(res, n - 1) \o Spread(res[n].findings)

\* The sum of findings.length over the results.
RECURSIVE SumLengths(_)
SumLengths(res) ==
  IF res = <<>> THEN 0
  ELSE SumLengths(SubSeq(res, 1, Len(res) - 1)) + Length(res[Len(res)].findings)

\* The canonical fallback of the specification, written out.
CanonicalFallback(result) ==
  /\ result.findings = Arr(<<>>)
  /\ result.confidence = Num(50)
  /\ result.reasoning = Str("Unable to parse response")

\* C1: every request with non-empty text and a non-empty list of agents is
\* answered with a results list holding exactly one entry per requested
\* agent, in request order.
C1_OneResultPerAgent ==
  \A r \in Runs :
    (Responded(r) /\ ProperRequest(r)) =>
      /\ response[r].status = 200
      /\ Len(response[r].results) = Len(request[r].run_agents.a)
      /\ \A i \in 1..Len(response[r].results) :
           response[r].results[i].agent = AgentName(request[r].run_agents.a[i])

\* A call of the reasoning service that failed in transport: the prompt was
\* sent and the run ended without a result for it.
TransportFailed(r) == Responded(r) /\ Len(geminiCalls[r]) > Len(results[r])

\* C2: a transport or HTTP error of one agent's call does not stop the run:
\* the caller still gets a success response with one result per requested
\* agent, the failed agent's being the canonical fallback.
C2_TransportErrorContinues ==
  \A r \in Runs :
    (TransportFailed(r) /\ ProperRequest(r)) =>
      /\ response[r].status = 200
      /\ Len(response[r].results) = Len(request[r].run_agents.a)
      /\ Len(geminiCalls[r]) = Len(request[r].run_agents.a)
      /\ \E i \in 1..Len(response[r].results) : CanonicalFallback(response[r].results[i])

\* C3: the prior findings embedded in a risk prompt are exactly the findings
\* of the results produced earlier in the run, concatenated in order.
C3_RiskSeesEarlierFindings ==
  \A r \in Runs :
    \A k \in 1..Len(geminiCalls[r]) :
      geminiCalls[r][k].agent = "risk" =>
        geminiCalls[r][k].previousFindings = FindingsOf(results[r], k - 1)

\* Scenario D and beyond: a risk prompt built after an agent with two findings.
C3_Witness ==
  \E k \in 2..Len(geminiCalls[1]) :
    /\ geminiCalls[1][k].agent = "risk"
    /\ Len(geminiCalls[1][k].previousFindings) >= 2
    /\ geminiCalls[1][k - 1].agent # "risk"

\* The parser has run on the raw output under parse.
Parsed == agentResult # NoResult

\* No well-formed object occurs in the raw text: no JSON object chunk and no
\* "{" directly closed by "}".
NoWellFormedObject(raw) ==
  /\ \A i \in 1..Len(raw) : raw[i].k # "json"
  /\ \A i \in 1..(Len(raw) - 1) : ~(raw[i] = LBrace /\ raw[i + 1] = RBrace)

\* C4: a raw output without a structured object, or whose object text is
\* malformed (the empty text included), yields the canonical fallback.
C4_UnparsableGivesFallback ==
  (Parsed /\ NoWellFormedObject(modelOutput)) =>
    /\ agentResult.agent = AgentName(parsedBy)
    /\ CanonicalFallback(agentResult)

\* A malformed object between prose has been parsed.
C4_Witness ==
  /\ Parsed
  /\ modelOutput = <<Prose, BadObject, Prose>>
  /\ agentResult.confidence = Num(50)

\* An object with a findings array, a confidence in [0,1] and a reasoning string.
ValidObject(o) ==
  /\ o.findings.ty = "array"
  /\ o.confidence.ty = "number" /\ o.confidence.n >= 0 /\ o.confidence.n <= 100
  /\ o.reasoning.ty = "string"

\* C5: a valid object surrounded by brace-free prose is extracted, and the
\* result carries the object's findings, confidence and reasoning.
C5_EmbeddedObjectExtracted ==
  \A o \in Objects :
    (Parsed /\ modelOutput = <<Prose, Json(o), Prose>> /\ ValidObject(o)) =>
      /\ agentResult.findings = o.findings
      /\ agentResult.confidence = o.confidence
      /\ agentResult.reasoning = o.reasoning

\* findings is an array, confidence a number in [0,1], reasoning a string.
WellTyped(result) ==
  /\ result.findings.ty = "array"
  /\ result.confidence.ty = "number"
  /\ result.confidence.n >= 0 /\ result.confidence.n <= 100
  /\ result.reasoning.ty = "string"

\* C6: whatever the raw output, every per-agent result is well typed and
\* accumulating it never raises.
C6_ResultsWellTyped ==
  \A r \in Runs :
    /\ \A i \in 1..Len(results[r]) : WellTyped(results[r][i])
    /\ Responded(r) => response[r] # ServerError("TypeError")

\* C7: in a success response total_findings is the sum of the lengths of the
\* results' findings.
C7_TotalIsSumOfLengths ==
  \A r \in Runs :
    (Responded(r) /\ response[r].status = 200) =>
      response[r].summary.total_findings = SumLengths(response[r].results)

\* A success response over two results that both carry findings.
C7_Witness ==
  /\ Responded(1) /\ response[1].status = 200
  /\ Len(response[1].results) = 2
  /\ Length(response[1].results[1].findings) > 0
  /\ Length(response[1].results[2].findings) > 0
  /\ response[1].summary.total_findings >= 3

\* The number of accumulated findings whose severity is sev in any casing.
CountAnyCase(res, sev) ==
  LET all == FindingsOf(res, Len(res))
  IN Cardinality({i \in 1..Len(all) :
                    /\ severityOf(all[i]).ty = "string"
                    /\ toLowerCase(severityOf(all[i]).s) = sev})

\* C8: each severity count of the summary counts the findings whose severity
\* matches the bucket's name case-insensitively.
C8_CountsIgnoreCase ==
  \A r \in Runs :
    (Responded(r) /\ response[r].status = 200) =>
      /\ response[r].summary.critical = CountAnyCase(response[r].results, "critical")
      /\ response[r].summary.high = CountAnyCase(response[r].results, "high")
      /\ response[r].summary.medium = CountAnyCase(response[r].results, "medium")
      /\ response[r].summary.low = CountAnyCase(response[r].results, "low")

\* C9: a request whose text is empty or absent is answered with the
\* validation error at once: no agent is invoked, the store is not written
\* and the document keeps its status.
C9_EmptyTextRejected ==
  \A r \in Runs :
    (request[r].valid /\ ~(request[r].text.ty = "string" /\ request[r].text.s # "")) =>
      /\ pc[r] \in {"received", "responded"}
      /\ Responded(r) => response[r] = [status |-> 400, error |-> "Text content is required"]
      /\ geminiCalls[r] = <<>>
      /\ agent_executions = <<>> /\ findings = <<>>
      /\ \A d \in DocIds : documents[d] = "pending"

\* An empty text sent with a document id and an agent list has been rejected.
C9_Witness ==
  /\ Responded(1)
  /\ request[1].text = Str("")
  /\ Truthy(request[1].document_id)
  /\ Truthy(request[1].run_agents) /\ Len(request[1].run_agents.a) > 0
  /\ response[1].status = 400

\* C10: a request with non-empty text and an empty agent list is rejected with
\* a validation error, and the document is not marked completed.
C10_EmptyAgentListRejected ==
  \A r \in Runs :
    (Responded(r) /\ request[r].valid /\ Truthy(request[r].text)
       /\ request[r].run_agents = Arr(<<>>)) =>
      /\ response[r].status = 400
      /\ \A d \in DocIds : documents[d] # "completed"

\* The number of requested agents the switch knows.
KnownCount(agents) == Cardinality({i \in 1..Len(agents) : agents[i] \in KnownAgents})

\* Every write of the last result has been sent and has returned or is
\* returning: the execution record, and each of its findings.
PersistenceAttempted(r) ==
  \/ pc[r] = "received"
  \/ pc[r] = "insertExecution" /\ Length(Last(results[r]).findings) = 0
  \/ pc[r] = "insertFinding" /\ findingIdx[r] = Length(Last(results[r]).findings)

\* C11: with a document id the run updates the document's status once, to
\* completed, and only after every requested agent has produced its result
\* and its writes have been attempted; never before the last agent finishes.
C11_StatusWrittenOnceAtEnd ==
  [][\A r \in Runs :
       /\ (pc'[r] = "updateDocument" /\ pc[r] # "updateDocument") =>
            /\ Len(results'[r]) = KnownCount(agentsOf(request[r]))
            /\ PersistenceAttempted(r)
       /\ pc[r] = "updateDocument" => pc'[r] \in {"updateDocument", "responded"}
       /\ pc[r] = "responded" => pc'[r] = "responded"
       /\ (response'[r].status = 200 /\ response[r].status # 200
             /\ Truthy(request[r].document_id)) => pc[r] = "updateDocument"
       /\ \A d \in DocIds :
            documents'[d] # documents[d] =>
              /\ documents'[d] = "completed"
              /\ \E r2 \in Runs : /\ pc[r2] = "updateDocument" /\ pc'[r2] = "responded"
                                  /\ request[r2].document_id = Str(d)
                                  /\ Len(results[r2]) = KnownCount(agentsOf(request[r2]))
    ]_vars

\* A run over two agents with findings has marked its document completed.
C11_Witness ==
  /\ Responded(1) /\ response[1].status = 200
  /\ documents["d1"] = "completed"
  /\ Len(results[1]) = 2
  /\ Len(findings) >= 1

\* The agent of each expected finding row: every result's agent, once per
\* finding of that result, in order.
RECURSIVE ExpectedAgentTypes(_)
ExpectedAgentTypes(res) ==
  IF res = <<>> THEN <<>>
  ELSE ExpectedAgentTypes(SubSeq(res, 1, Len(res) - 1))
         \o [k \in 1..Length(res[Len(res)].findings) |-> res[Len(res)].agent]

\* C12: a completed run with a document id has inserted one execution record
\* per result and one finding row per finding of each result (a row is
\* missing only where the store failed the insert); a run without a document
\* id performs no insert and no update.
C12_OneRowPerResultAndFinding ==
  \A r \in Runs :
    /\ (Responded(r) /\ response[r].status = 200 /\ Truthy(request[r].document_id)) =>
         /\ Len(agent_executions) <= Len(results[r])
         /\ Len(findings) <= SumLengths(results[r])
         /\ Len(agent_executions) + Len(findings) + storeFailures
              >= Len(results[r]) + SumLengths(results[r])
         /\ storeFailures = 0 =>
              /\ Len(agent_executions) = Len(results[r])
              /\ \A i \in 1..Len(results[r]) :
                   /\ agent_executions[i].document_id = request[r].document_id.s
                   /\ agent_executions[i].agent_name = results[r][i].agent
                   /\ agent_executions[i].findings_count = Length(results[r][i].findings)
              /\ [i \in 1..Len(findings) |-> findings[i].agent_type]
                   = ExpectedAgentTypes(results[r])
              /\ \A i \in 1..Len(findings) :
                   findings[i].document_id = request[r].document_id.s
    /\ (request[r].valid /\ ~Truthy(request[r].document_id)) =>
         /\ pc[r] \notin {"insertExecution", "insertFinding", "updateDocument"}
         /\ agent_executions = <<>> /\ findings = <<>>
         /\ \A d \in DocIds : documents[d] = "pending"
         /\ storeFailures = 0

\* A completed run with a document id whose two results carry three findings,
\* all stored.
C12_Witness ==
  /\ Responded(1) /\ response[1].status = 200
  /\ Truthy(request[1].document_id)
  /\ Len(agent_executions) = 2
  /\ Len(findings) = 3
  /\ findings[1].agent_type # findings[3].agent_type

\* A write of an execution record or of a finding row has failed in the run:
\* the call raised, or the run went on and a row is missing.
InsertFailed(r) ==
  /\ Responded(r) /\ Truthy(request[r].document_id)
  /\ \/ response[r] = ServerError("insert rejected")
     \/ /\ response[r].status = 200
        /\ Len(agent_executions) + Len(findings) < Len(results[r]) + SumLengths(results[r])

\* C13: when a write of an execution record or of a finding row fails, by an
\* error of the store or by a raised call, the run continues and the caller
\* receives the results and the summary all the same.
C13_WriteFailureTolerated ==
  \A r \in Runs :
    InsertFailed(r) =>
      /\ response[r].status = 200
      /\ Len(response[r].results) = KnownCount(agentsOf(request[r]))
      /\ response[r].summary.total_findings = SumLengths(response[r].results)

\* C14: a call the reasoning service never answers is resolved as a timeout,
\* so the run goes on and eventually returns a response.
C14_UnansweredCallTimesOut ==
  \A r \in Runs : (pc[r] = "unanswered") ~> Responded(r)

\* The four severities of the output vocabulary.
UpperSeverities == {Str("CRITICAL"), Str("HIGH"), Str("MEDIUM"), Str("LOW")}

\* C15: every finding object in the findings arrays of the returned results
\* carries one of the four upper-case severities, whatever the model output
\* used.
C15_SeveritiesUpperCase ==
  \A r \in Runs :
    (Responded(r) /\ response[r].status = 200) =>
      \A i \in 1..Len(response[r].results) :
        response[r].results[i].findings.ty = "array" =>
          \A k \in 1..Len(response[r].results[i].findings.a) :
            response[r].results[i].findings.a[k].ty = "object" =>
              severityOf(response[r].results[i].findings.a[k]) \in UpperSeverities

\* The raw output under parse is the text of one well-formed object, alone or
\* between brace-free prose.
ObjectParsed ==
  /\ Parsed
  /\ \/ Len(modelOutput) = 1 /\ modelOutput[1].k = "json"
     \/ Len(modelOutput) = 3 /\ modelOutput[1] = Prose /\ modelOutput[2].k = "json"
          /\ modelOutput[3] = Prose

\* The object that text decodes to.
ObjectUnderParse == IF Len(modelOutput) = 1 THEN modelOutput[1].v ELSE modelOutput[2].v

\* C17: a syntactically valid object without a findings array or without a
\* numeric confidence yields the canonical fallback, not a partly filled result.
C17_MissingFieldGivesFallback ==
  (ObjectParsed /\ (ObjectUnderParse.findings.ty # "array"
                      \/ ObjectUnderParse.confidence.ty # "number")) =>
    CanonicalFallback(agentResult)

C19_FirstObjectUsed ==
  (/\ Parsed
   /\ Len(modelOutput) >= 2
   /\ modelOutput[1].k = "json" /\ ValidObject(modelOutput[1].v)
   /\ \E j \in 2..Len(modelOutput) : HasClose(modelOutput[j])) =>
    /\ ~CanonicalFallback(agentResult)
    /\ agentResult.findings = modelOutput[1].v.findings
    /\ agentResult.confidence = modelOutput[1].v.confidence

\* C20: a numeric confidence in [0,1] of the parsed object is the result's
\* confidence, 0 included.
C20_ConfidenceKept ==
  (/\ ObjectParsed
   /\ ObjectUnderParse.confidence.ty = "number"
   /\ ObjectUnderParse.confidence.n >= 0 /\ ObjectUnderParse.confidence.n <= 100) =>
    agentResult.confidence = ObjectUnderParse.confidence

\* An execution record of the agent run r is invoking, with the given status.
ExecutionRecordOfCurrent(r, status) ==
  \E i \in 1..Len(agent_executions) :
    /\ agent_executions[i].document_id = request[r].document_id.s
    /\ agent_executions[i].agent_name = AgentName(agentsOf(request[r])[agentIdx[r]])
    /\ agent_executions[i].status = status

\* C21: while an agent of a run with a document id is being invoked, an
\* execution record of that agent with status running exists (it is closed
\* by one transition to completed or failed when the invocation ends).
C21_RunningRecordDuringInvocation ==
  \A r \in Runs :
    (pc[r] \in {"fetch", "unanswered"} /\ Truthy(request[r].document_id)) =>
      ExecutionRecordOfCurrent(r, "running")

\* C22: every agent that started running has left RUNNING when the run ends:
\* each prompt sent has its result (parsed or fallback) in the results.
C22_NoAgentLeftRunning ==
  \A r \in Runs :
    Responded(r) => Len(results[r]) = Len(geminiCalls[r])

\* C23: a run has at most one reasoning call in flight, and it sends the
\* next agent's prompt only in the step in which the previous agent's result
\* is in the results and the last of its persistence writes returns.
C23_OneCallInFlight ==
  [][\A r \in Runs :
       /\ Len(geminiCalls'[r]) <= Len(results'[r]) + 1
       /\ geminiCalls'[r] # geminiCalls[r] =>
            /\ Len(geminiCalls'[r]) = Len(geminiCalls[r]) + 1
            /\ Len(results'[r]) = Len(geminiCalls[r])
            /\ pc'[r] = "fetch"
            /\ IF Truthy(request[r].document_id)
                 THEN PersistenceAttempted(r)
                 ELSE pc[r] \in {"received", "fetch"}
    ]_vars

\* The second prompt of a run with a document id has been sent after the
\* first agent's record and its two findings were stored.
C23_Witness ==
  /\ pc[1] = "fetch"
  /\ Len(geminiCalls[1]) = 2 /\ Len(results[1]) = 1
  /\ Len(agent_executions) = 1 /\ Len(findings) = 2

\* C24: the accumulated findings of a run start empty and only grow: a step
\* that adds a result appends that result's findings to the list as it was,
\* a fallback result adds nothing, and no other step touches the list.
C24_AccumulatorAppendOnly ==
  [][\A r \in Runs :
       /\ pc[r] \in {"idle", "received"} => allFindings[r] = <<>>
       /\ Len(allFindings'[r]) >= Len(allFindings[r])
       /\ SubSeq(allFindings'[r], 1, Len(allFindings[r])) = allFindings[r]
       /\ results'[r] = results[r] => allFindings'[r] = allFindings[r]
       /\ results'[r] # results[r] =>
            /\ results'[r][Len(results'[r])].findings.ty = "array" =>
                 allFindings'[r] = allFindings[r] \o results'[r][Len(results'[r])].findings.a
            /\ CanonicalFallback(results'[r][Len(results'[r])]) =>
                 allFindings'[r] = allFindings[r]
    ]_vars

\* Two findings, then a fallback result, then one more finding.
C24_Witness ==
  /\ Len(results[1]) >= 3
  /\ results[1][1].findings = TwoFindings
  /\ CanonicalFallback(results[1][2])
  /\ results[1][3].findings = OneFinding
  /\ allFindings[1] = TwoFindings.a \o OneFinding.a

\* The findings the service produces for the second run.
FindingsTwo == {Finding(Str("LOW")), Finding(Str("MEDIUM"))}

\* Every element of fs was produced in run r.
OwnFindings(r, fs) ==
  \A i \in 1..Len(fs) : IF r = 1 THEN fs[i] \notin FindingsTwo ELSE fs[i] \in FindingsTwo

\* C25: of two interleaved runs, no finding produced in one appears in the
\* other's results, accumulated findings, risk prompt or summary.
C25_RunsDoNotShareFindings ==
  \A r \in Runs :
    /\ \A i \in 1..Len(results[r]) :
         Iterable(results[r][i].findings) => OwnFindings(r, Spread(results[r][i].findings))
    /\ OwnFindings(r, allFindings[r])
    /\ \A k \in 1..Len(geminiCalls[r]) :
         geminiCalls[r][k].agent = "risk" =>
           /\ OwnFindings(r, geminiCalls[r][k].previousFindings)
           /\ geminiCalls[r][k].previousFindings = FindingsOf(results[r], k - 1)
    /\ (Responded(r) /\ response[r].status = 200) =>
         /\ response[r].results = results[r]
         /\ response[r].summary.total_findings = SumLengths(results[r])
         /\ r = 1 => response[r].summary.low = 0 /\ response[r].summary.medium = 0
         /\ r = 2 => response[r].summary.critical = 0 /\ response[r].summary.high = 0

\* Both runs have sent a risk prompt carrying findings, each its own, after
\* their steps interleaved.
C25_Witness ==
  /\ Len(geminiCalls[1]) = 2 /\ Len(geminiCalls[2]) = 2
  /\ geminiCalls[1][2].agent = "risk" /\ geminiCalls[2][2].agent = "risk"
  /\ geminiCalls[1][2].previousFindings = TwoFindings.a
  /\ Len(geminiCalls[2][2].previousFindings) = 2
  /\ pc[1] = "fetch" /\ pc[2] = "fetch"

\* C26: the prompt of a non-synthesis agent depends only on the agent and the
\* document text: two runs with the same text send that agent the same
\* prompt, whatever ran before it in either run.
C26_PromptOfAgentAndText ==
  \A r1 \in Runs, r2 \in Runs :
    \A k1 \in 1..Len(geminiCalls[r1]), k2 \in 1..Len(geminiCalls[r2]) :
      (/\ geminiCalls[r1][k1].agent = geminiCalls[r2][k2].agent
       /\ geminiCalls[r1][k1].agent \in {"consistency", "greenwashing", "compliance", "math"}
       /\ request[r1].text = request[r2].text) =>
        geminiCalls[r1][k1] = geminiCalls[r2][k2]

\* The consistency agent has been prompted first in one run and after a math
\* agent with findings in the other.
C26_Witness ==
  /\ Len(geminiCalls[1]) >= 1 /\ geminiCalls[1][1].agent = "consistency"
  /\ Len(geminiCalls[2]) = 2 /\ geminiCalls[2][2].agent = "consistency"
  /\ Len(allFindings[2]) = 2
  /\ request[1].text = request[2].text

\* The requested agents the switch knows, in request order.
KnownOf(req) == SelectSeq(agentsOf(req), LAMBDA a : a \in KnownAgents)

\* The results whose findings have been accumulated: all of them, but for a
\* last result whose findings could not be spread.
Accumulated(r) ==
  IF results[r] # <<>> /\ ~Iterable(Last(results[r]).findings)
    THEN Len(results[r]) - 1 ELSE Len(results[r])

\* C27: a requested identifier the switch does not know is skipped without
\* effect: the prompts, results, accumulated findings and rows of a run are
\* those of its known agents alone, and the known agents after it still run.
C27_UnknownAgentSkipped ==
  \A r \in Runs :
    request[r].valid =>
      /\ Len(geminiCalls[r]) <= Len(KnownOf(request[r]))
      /\ \A k \in 1..Len(geminiCalls[r]) : geminiCalls[r][k].agent = KnownOf(request[r])[k]
      /\ Len(results[r]) <= Len(geminiCalls[r])
      /\ \A i \in 1..Len(results[r]) : results[r][i].agent = AgentName(KnownOf(request[r])[i])
      /\ allFindings[r] = FindingsOf(results[r], Accumulated(r))
      /\ Len(agent_executions) <= Len(results[r])
      /\ \A i \in 1..Len(agent_executions) :
           agent_executions[i].agent_name \in {AgentName(a) : a \in KnownAgents}
      /\ \A i \in 1..Len(findings) :
           findings[i].agent_type \in {AgentName(a) : a \in KnownAgents}
      /\ (Responded(r) /\ response[r].status = 200) =>
           /\ Len(geminiCalls[r]) = Len(KnownOf(request[r]))
           /\ Len(response[r].results) = Len(KnownOf(request[r]))

\* A run asked for an unknown agent and then a known one has run the known
\* one and stored its record.
C27_Witness ==
  /\ request[1].run_agents = Arr(<<"sentiment", "consistency">>)
  /\ Responded(1) /\ response[1].status = 200
  /\ Len(response[1].results) = 1
  /\ response[1].results[1].agent = "Consistency Agent"
  /\ Len(agent_executions) = 1

\* C28: a request without run_agents runs the five agents in the order
\* consistency, greenwashing, compliance, math, risk; the risk prompt is the
\* last one and carries the findings of the four results before it.
C28_DefaultOrderRiskLast ==
  \A r \in Runs :
    (request[r].valid /\ request[r].run_agents = Undef) =>
      /\ Len(geminiCalls[r]) <= 5
      /\ \A k \in 1..Len(geminiCalls[r]) :
           geminiCalls[r][k].agent
             = <<"consistency", "greenwashing", "compliance", "math", "risk">>[k]
      /\ Len(geminiCalls[r]) = 5 =>
           /\ Len(results[r]) >= 4
           /\ geminiCalls[r][5].previousFindings = FindingsOf(results[r], 4)
      /\ (Responded(r) /\ response[r].status = 200) =>
           /\ Len(geminiCalls[r]) = 5
           /\ [i \in 1..Len(response[r].results) |-> response[r].results[i].agent]
                = <<"Consistency Agent", "Greenwashing Detector", "Compliance Agent",
                    "Math Agent", "Risk Analysis Agent">>

\* A run without run_agents has returned after the risk agent was given the
\* findings of all four earlier agents.
C28_Witness ==
  /\ request[1].run_agents = Undef
  /\ Responded(1) /\ response[1].status = 200
  /\ Len(geminiCalls[1]) = 5
  /\ \A i \in 1..4 : Length(results[1][i].findings) >= 1
  /\ Len(geminiCalls[1][5].previousFindings) >= 5

\* Run r is executing an agent: its call is in flight or its rows are being
\* written.
ExecutingAgents(r) ==
  pc[r] \in {"fetch", "unanswered", "insertExecution", "insertFinding"}

\* C29: a run marks its document completed only when no run for that
\* document is still executing agents.
C29_CompletedWhenNoRunExecuting ==
  [][\A d \in DocIds :
       (documents'[d] = "completed" /\ documents[d] # "completed") =>
         \A r \in Runs : request[r].document_id = Str(d) => ~ExecutingAgents(r)
    ]_vars

UploadResponded(u) == uploadPc[u] = "responded"

\* Upload u carried a file, so that it reached the storage upload.
FileGiven(u) == formData[u].valid /\ formData[u].file # Null

\* C30: the upload endpoint inserts a document row only after the file was
\* stored.  A failed storage upload is answered with an error and no row; a
\* stored file whose insert reports an error is answered with success,
\* document_id null and a warning; otherwise the answer is success with the id
\* of the new row, whose processing_status is pending.  (A rejected insert
\* leaves through the catch block: an error and no row.)
C30_DocumentAfterStoredFile ==
  /\ \A i \in 1..Len(documentRows) :
       /\ documentRows[i].s3_key \in bucket
       /\ documentRows[i].processing_status = "pending"
  /\ Len(documentRows) = Cardinality({u \in Uploads : docData[u] \notin {Undef, Null}})
  /\ \A u \in Uploads :
       /\ uploadPc[u] = "insertDocument" => (uploadError[u] = Null /\ filePath[u] \in bucket)
       /\ (UploadResponded(u) /\ FileGiven(u) /\ uploadError[u] # Null) =>
            /\ uploadResponse[u].status = 500
            /\ docData[u] = Undef /\ docError[u] = Undef
       /\ (UploadResponded(u) /\ uploadError[u] = Null) =>
            /\ docError[u] \notin {Undef, Null} =>
                 /\ uploadResponse[u].status = 200 /\ uploadResponse[u].success
                 /\ uploadResponse[u].document_id = Null
                 /\ uploadResponse[u].warning = "File uploaded but document record failed"
                 /\ docData[u] = Null
            /\ docError[u] = Null =>
                 /\ uploadResponse[u].status = 200 /\ uploadResponse[u].success
                 /\ \E i \in 1..Len(documentRows) :
                      /\ uploadResponse[u].document_id = documentRows[i].id
                      /\ uploadResponse[u].document = documentRows[i]
                      /\ documentRows[i].s3_key = filePath[u]
                      /\ documentRows[i].filename = formData[u].file.name
                      /\ documentRows[i].processing_status = "pending"
            /\ docError[u] = Undef =>
                 /\ uploadResponse[u].status = 500
                 /\ docData[u] = Undef

\* One upload was stored but its insert reported an error, the other was
\* stored and recorded.
C30_Witness ==
  /\ UploadResponded(1) /\ UploadResponded(2)
  /\ uploadResponse[1].status = 200 /\ uploadResponse[1].document_id = Null
  /\ uploadResponse[2].status = 200 /\ uploadResponse[2].document_id = RowId(1)
  /\ Cardinality(bucket) = 2
  /\ Len(documentRows) = 1

====
